---- MODULE Spec2Model ----
(***************************************************************************)
(* Portus (CCP agent): the wire codec of src/serialize/mod.rs, the         *)
(* control-program parser of src/lang/ast.rs and the echo collaborator of  *)
(* src/bin/echo.rs, as state machines whose actions apply the program's    *)
(* functions to inputs drawn from bounded sets.                            *)
(***************************************************************************)
EXTENDS Integers, Sequences, FiniteSets, TLC

VARIABLES
    overflow_checks, \* build profile: TRUE = arithmetic overflow panics (debug), FALSE = wraps (release)
    pc,              \* position of the codec driver: "idle", "encoded", "decoded", "panicked"
    msg,             \* the message last handed to RMsg::serialize
    wire,            \* what RMsg::serialize returned for msg
    buf,             \* the buffer last handed to Msg::from_buf
    origin,          \* where buf came from: "wire", "truncated", "retagged", "relen", "arbitrary"
    decoded,         \* what Msg::from_buf returned for buf
    history,         \* the outcome kinds of the Msg::from_buf calls so far, oldest first
    phase,           \* position of the parser driver: "idle", "edit", "parsed", "desugared", "respaced"
    edits,           \* the number of steps in which the program text was composed
    tree,            \* how the program text was composed: its top-level items, in order
    swept,           \* TRUE once an operator token of the full table has been used
    src,             \* the program text, a sequence of one-character strings
    parsed,          \* what Expr::new returned for src
    leftover,        \* Ok of the input that exprs left unconsumed in that call, None when exprs failed
    desugared,       \* the trees of parsed after desugar() on each
    padded,          \* src with white space inserted between tokens
    reparsed,        \* what Expr::new returned for padded
    epc,             \* position of echo's main: "idle", "recv", "send", "panicked"
    ebuf,            \* echo's receive buffer, buf
    ecount,          \* the count that the last recv_from returned
    received,        \* the datagrams that arrived at echo's socket, oldest first
    sent             \* the datagrams that echo sent to the peer, oldest first

codecVars == << overflow_checks, pc, msg, wire, buf, origin, decoded, history >>
langVars == << phase, edits, tree, swept, src, parsed, leftover, desugared, padded, reparsed >>
echoVars == << epc, ebuf, ecount, received, sent >>
vars == << codecVars, langVars, echoVars >>

(***************************************************************************)
(* Bounds of the model.                                                    *)
(***************************************************************************)
MaxText == 1      \* short text payloads are all strings over TextBytes up to this length
MaxCalls == 2     \* Msg::from_buf calls in one run
MaxEdits == 3     \* steps in which a program text is composed
MaxPadEdits == 2  \* texts that are parsed again with white space inserted: composed in at most so many steps
MaxDatagramLen == 2   \* bytes in a datagram that arrives at echo
MaxDatagrams == 3     \* datagrams that arrive at echo in one run

(***************************************************************************)
(* Values shared by the codec.                                             *)
(***************************************************************************)
None == [kind |-> "None"]
Panic == [kind |-> "Panic"]
Ok(v) == [kind |-> "Ok", val |-> v]
Err(e) == [kind |-> "Err", err |-> e]

Fill(n, b) == [i \in 1..n |-> b]

RECURSIVE SeqsUpTo(_, _)
SeqsUpTo(S, n) ==
    IF n = 0 THEN { <<>> }
    ELSE LET shorter == SeqsUpTo(S, n - 1)
         IN shorter \cup { Append(s, x) : s \in { t \in shorter : Len(t) = n - 1 }, x \in S }

\* A u32 or u64 is held as its base-256 numeral, most significant digit
\* first (4 or 8 digits), so that the whole range of both widths is
\* representable; U32(n) and U64(n) are the numerals of a small n.
U32(n) == << (n \div 16777216) % 256, (n \div 65536) % 256, (n \div 256) % 256, n % 256 >>
U64(n) == << 0, 0, 0, 0 >> \o U32(n)
Reverse(s) == [i \in 1..Len(s) |-> s[Len(s) + 1 - i]]

\* src/serialize/mod.rs:11-21, byteorder's LittleEndian: least significant byte first
u32_to_u8s(num) == Reverse(num)

u64_to_u8s(num) == Reverse(num)

\* the same four bytes read most significant byte first
u32_from_u8s_be(b) == SubSeq(b, 1, 4)

u32_from_u8s(b) == Reverse(SubSeq(b, 1, 4))

\* the read of a transmuted &[u64] element on a little-endian host
u64_from_u8s(b) == Reverse(SubSeq(b, 1, 8))

\* Rust's `&s[a..b]`: a panic unless a <= b <= s.len().
Slice(s, a, b) ==
    IF a <= b /\ b <= Len(s) THEN Ok(SubSeq(s, a + 1, b)) ELSE Panic

\* u8 addition: a panic with overflow checks, wrap-around without.
AddU8(a, b, checks) ==
    IF a + b <= 255 THEN Ok(a + b)
    ELSE IF checks THEN Panic ELSE Ok((a + b) % 256)

\* `x as u8`
AsU8(x) == x % 256

\* std::str::from_utf8: is b well-formed UTF-8?
IsCont(x) == x >= 128 /\ x <= 191

\* the validation runs from byte i (1-based); runs of ASCII are skipped at once
RECURSIVE Utf8From(_, _)
Utf8From(b, i) ==
    LET high == { j \in i..Len(b) : b[j] > 127 }
    IN  IF high = {} THEN TRUE
        ELSE LET k == CHOOSE j \in high : \A h \in high : j <= h
                 c == b[k]
                 has(n) == k + n <= Len(b)
             IN  IF c >= 194 /\ c <= 223
                 THEN has(1) /\ IsCont(b[k + 1]) /\ Utf8From(b, k + 2)
                 ELSE IF c >= 224 /\ c <= 239
                 THEN /\ has(2)
                      /\ IsCont(b[k + 1]) /\ IsCont(b[k + 2])
                      /\ (c = 224 => b[k + 1] >= 160)
                      /\ (c = 237 => b[k + 1] <= 159)
                      /\ Utf8From(b, k + 3)
                 ELSE IF c >= 240 /\ c <= 244
                 THEN /\ has(3)
                      /\ IsCont(b[k + 1]) /\ IsCont(b[k + 2]) /\ IsCont(b[k + 3])
                      /\ (c = 240 => b[k + 1] >= 144)
                      /\ (c = 244 => b[k + 1] <= 143)
                      /\ Utf8From(b, k + 4)
                 ELSE FALSE

from_utf8(b) == IF Utf8From(b, 1) THEN Ok(b) ELSE Err("utf8")

(***************************************************************************)
(* Header, src/serialize/mod.rs:27-53.                                     *)
(***************************************************************************)
HDR_LENGTH == 6

serialize_header(typ, len, sid) == << typ, len >> \o u32_to_u8s(sid)

\* read_exact of 6 bytes from a Cursor over b
deserialize_header(b) ==
    IF Len(b) < 6 THEN Err("io")
    ELSE Ok([typ |-> b[1], len |-> b[2], sid |-> u32_from_u8s(SubSeq(b, 3, 6))])

CREATE == 0
MEASURE == 1
DROP == 2
CWND == 3

(***************************************************************************)
(* pattern::Pattern is referenced by PatternMsg and defined elsewhere: a   *)
(* pattern is its serialized bytes, len_bytes their count, deserialize the *)
(* inverse of serialize.                                                   *)
(***************************************************************************)
Pattern_len_bytes(p) == Len(p)
Pattern_serialize(p) == p
Pattern_deserialize(b) == Ok(b)

(***************************************************************************)
(* AsRawMsg::get_hdr of the four messages.                                 *)
(***************************************************************************)
HdrOf(typ, len, sid) ==
    IF len.kind = "Panic" THEN Panic ELSE Ok([typ |-> typ, len |-> len.val, sid |-> sid])

CreateMsg_get_hdr(m, checks) ==
    HdrOf(CREATE, AddU8(HDR_LENGTH + 4, AsU8(Len(m.cong_alg)), checks), m.sid)

MeasureMsg_get_hdr(m, checks) ==
    HdrOf(MEASURE, Ok(HDR_LENGTH + 8 + AsU8(16)), m.sid)

DropMsg_get_hdr(m, checks) ==
    HdrOf(DROP, AddU8(HDR_LENGTH, AsU8(Len(m.event)), checks), m.sid)

PatternMsg_get_hdr(m, checks) ==
    HdrOf(CWND, AddU8(HDR_LENGTH, AsU8(Pattern_len_bytes(m.pattern)), checks), m.sid)

get_hdr(m, checks) ==
    CASE m.typ = "Cr" -> CreateMsg_get_hdr(m, checks)
      [] m.typ = "Ms" -> MeasureMsg_get_hdr(m, checks)
      [] m.typ = "Dr" -> DropMsg_get_hdr(m, checks)
      [] m.typ = "Pt" -> PatternMsg_get_hdr(m, checks)

\* AsRawMsg::get_u32s, get_u64s, get_bytes: what each message writes after the header
get_u32s(m) ==
    CASE m.typ = "Cr" -> u32_to_u8s(m.start_seq)
      [] m.typ = "Ms" -> u32_to_u8s(m.ack) \o u32_to_u8s(m.rtt_us)
      [] OTHER -> <<>>

get_u64s(m) ==
    CASE m.typ = "Ms" -> u64_to_u8s(m.rin) \o u64_to_u8s(m.rout)
      [] OTHER -> <<>>

get_bytes(m) ==
    CASE m.typ = "Cr" -> m.cong_alg
      [] m.typ = "Dr" -> m.event
      [] m.typ = "Pt" -> Pattern_serialize(m.pattern)
      [] OTHER -> <<>>

\* RMsg::serialize, src/serialize/mod.rs:109-118: writes to a Vec never fail,
\* so the only outcomes are a buffer or a panic inside get_hdr.
RMsg_serialize(m, checks) ==
    LET h == get_hdr(m, checks)
    IN  IF h.kind = "Panic" THEN Panic
        ELSE Ok(serialize_header(h.val.typ, h.val.len, h.val.sid)
                \o get_u32s(m) \o get_u64s(m) \o get_bytes(m))

(***************************************************************************)
(* RawMsg, src/serialize/mod.rs:55-94.  A RawMsg is [typ, len, sid, bytes].*)
(***************************************************************************)
\* `self.len as usize - 6`: underflow panics with overflow checks; without,
\* it wraps to a value above every slice length, and the slice panics.
RawMsg_payload_end(raw) == raw.len - 6

\* a word of a transmuted slice that lies, in part or whole, in the memory
\* after the buffer: reading it is undefined, and no caller reads it
Beyond == [kind |-> "Beyond"]

\* mem::transmute of the u8 slice &bytes[from..to] to a slice of words of w
\* bytes: the pointer and the length are kept as they are, so the result has
\* to - from elements, not (to - from) / w.  Element k is the native
\* (little-endian) word at byte from + (k - 1) * w: the first (to - from) / w
\* are the bytes of the u8 slice, the next ones the bytes of the buffer that
\* follow it, and the rest lie beyond the buffer.
transmute_u32s(bytes, from, to) ==
    [k \in 1..(to - from) |->
        IF from + 4 * k <= Len(bytes)
        THEN u32_from_u8s(SubSeq(bytes, from + 4 * (k - 1) + 1, from + 4 * k))
        ELSE Beyond]

transmute_u64s(bytes, from, to) ==
    [k \in 1..(to - from) |->
        IF from + 8 * k <= Len(bytes)
        THEN u64_from_u8s(SubSeq(bytes, from + 8 * (k - 1) + 1, from + 8 * k))
        ELSE Beyond]

RawMsg_get_u32s(raw) ==
    CASE raw.typ = CREATE ->
            IF Slice(raw.bytes, 0, 4).kind = "Panic" THEN Panic
            ELSE Ok(transmute_u32s(raw.bytes, 0, 4))
      [] raw.typ = MEASURE ->
            IF Slice(raw.bytes, 0, 4 * 2).kind = "Panic" THEN Panic
            ELSE Ok(transmute_u32s(raw.bytes, 0, 4 * 2))
      [] raw.typ = DROP -> Ok(<<>>)
      [] raw.typ = CWND -> Ok(<<>>)
      [] OTHER -> Err("malformed msg")

RawMsg_get_u64s(raw) ==
    CASE raw.typ = CREATE -> Ok(<<>>)
      [] raw.typ = MEASURE ->
            IF Slice(raw.bytes, 4 * 2, 4 * 2 + 8 * 2).kind = "Panic" THEN Panic
            ELSE Ok(transmute_u64s(raw.bytes, 4 * 2, 4 * 2 + 8 * 2))
      [] raw.typ = DROP -> Ok(<<>>)
      [] raw.typ = CWND -> Ok(<<>>)
      [] OTHER -> Err("malformed msg")

RawMsg_get_bytes(raw) ==
    CASE raw.typ = CREATE ->
            IF raw.len < 6 THEN Panic ELSE Slice(raw.bytes, 4, RawMsg_payload_end(raw))
      [] raw.typ = MEASURE -> Ok(<<>>)
      [] raw.typ = DROP ->
            IF raw.len < 6 THEN Panic ELSE Slice(raw.bytes, 0, RawMsg_payload_end(raw))
      [] raw.typ = CWND ->
            IF raw.len < 6 THEN Panic ELSE Slice(raw.bytes, 0, RawMsg_payload_end(raw))
      [] OTHER -> Err("malformed msg")

(***************************************************************************)
(* AsRawMsg::from_raw_msg of the four messages.                            *)
(***************************************************************************)
CreateMsg_from_raw_msg(raw) ==
    LET b == RawMsg_get_bytes(raw)
    IN  IF b.kind # "Ok" THEN b
        ELSE LET s == from_utf8(b.val)
             IN  IF s.kind # "Ok" THEN s
                 ELSE LET u == RawMsg_get_u32s(raw)
                      IN  IF u.kind # "Ok" THEN u
                          ELSE Ok([typ |-> "Cr", sid |-> raw.sid,
                                   start_seq |-> u.val[1], cong_alg |-> s.val])

MeasureMsg_from_raw_msg(raw) ==
    LET u32s == RawMsg_get_u32s(raw)
    IN  IF u32s.kind # "Ok" THEN u32s
        ELSE LET u64s == RawMsg_get_u64s(raw)
             IN  IF u64s.kind # "Ok" THEN u64s
                 ELSE Ok([typ |-> "Ms", sid |-> raw.sid,
                          ack |-> u32s.val[1], rtt_us |-> u32s.val[2],
                          rin |-> u64s.val[1], rout |-> u64s.val[2]])

DropMsg_from_raw_msg(raw) ==
    LET b == RawMsg_get_bytes(raw)
    IN  IF b.kind # "Ok" THEN b
        ELSE LET s == from_utf8(b.val)
             IN  IF s.kind # "Ok" THEN s
                 ELSE Ok([typ |-> "Dr", sid |-> raw.sid, event |-> s.val])

PatternMsg_from_raw_msg(raw) ==
    LET b == RawMsg_get_bytes(raw)
    IN  IF b.kind # "Ok" THEN b
        ELSE LET p == Pattern_deserialize(b.val)
             IN  IF p.kind # "Ok" THEN p
                 ELSE Ok([typ |-> "Pt", sid |-> raw.sid, pattern |-> p.val])

\* deserialize, src/serialize/mod.rs:290-300
deserialize(b) ==
    LET h == deserialize_header(b)
    IN  IF h.kind # "Ok" THEN h
        ELSE Ok([typ |-> h.val.typ, len |-> h.val.len, sid |-> h.val.sid,
                 bytes |-> SubSeq(b, 7, Len(b))])

\* a dispatch without the catch-all arm: any other tag is taken as a Drop
Msg_from_raw_msg_lax(raw) ==
    CASE raw.typ = CREATE -> CreateMsg_from_raw_msg(raw)
      [] raw.typ = MEASURE -> MeasureMsg_from_raw_msg(raw)
      [] raw.typ = CWND -> PatternMsg_from_raw_msg(raw)
      [] OTHER -> DropMsg_from_raw_msg([raw EXCEPT !.typ = DROP])

\* Msg::from_raw_msg, src/serialize/mod.rs:312-320
Msg_from_raw_msg(raw) ==
    CASE raw.typ = CREATE -> CreateMsg_from_raw_msg(raw)
      [] raw.typ = DROP -> DropMsg_from_raw_msg(raw)
      [] raw.typ = MEASURE -> MeasureMsg_from_raw_msg(raw)
      [] raw.typ = CWND -> PatternMsg_from_raw_msg(raw)
      [] OTHER -> Err("unknown type")

\* Msg::from_buf, src/serialize/mod.rs:322-324
Msg_from_buf(b) ==
    LET raw == deserialize(b)
    IN  IF raw.kind # "Ok" THEN raw ELSE Msg_from_raw_msg(raw.val)

(***************************************************************************)
(* The control-program parser, src/lang/ast.rs.  A source is a sequence of *)
(* one-character strings; a parser takes the source s and the 1-based      *)
(* index i at which its input starts and returns nom's IResult: Done with  *)
(* the index of the remaining input and an output, Error, or Incomplete    *)
(* with what is needed: Needed::Unknown or Needed::Size(n).  A Size is the *)
(* total the parser needs, counted from the start of its own input.        *)
(***************************************************************************)
Done(rest, out) == [kind |-> "Done", rest |-> rest, out |-> out]
PError == [kind |-> "Error"]
Unknown == [needed |-> "Unknown"]
Size(n) == [needed |-> "Size", n |-> n]
Incomplete(needed) == [kind |-> "Incomplete", needed |-> needed]

\* Incomplete(Needed::Size(i)) => Incomplete(Needed::Size(consumed + i)) of
\* nom's sequences (tuple!, delimited!, do_parse!, many1!) and of ws!: a
\* parser that ran after `consumed` bytes of the combinator's input reports a
\* Size, and the combinator the total from the start of its own input
add_consumed(consumed, r) ==
    IF r.kind = "Incomplete" /\ r.needed # Unknown
    THEN Incomplete(Size(consumed + r.needed.n))
    ELSE r

Whitespace == { " ", "\t", "\r", "\n" }
Digit == { "0", "1", "2", "3", "4", "5", "6", "7", "8", "9" }
Alpha ==
    { "a", "b", "c", "d", "e", "f", "g", "h", "i", "j", "k", "l", "m", "n", "o", "p", "q", "r", "s", "t", "u", "v", "w", "x", "y", "z",
      "A", "B", "C", "D", "E", "F", "G", "H", "I", "J", "K", "L", "M", "N", "O", "P", "Q", "R", "S", "T", "U", "V", "W", "X", "Y", "Z" }

\* Expr, Prim, Op, Command: src/lang/ast.rs:4-55.  A Num holds its u64 as the
\* decimal numeral without leading zeros.
AtomBool(b) == [node |-> "Atom", prim |-> "Bool", val |-> b]
AtomName(n) == [node |-> "Atom", prim |-> "Name", val |-> n]
AtomNum(n) == [node |-> "Atom", prim |-> "Num", val |-> n]
Cmd(c) == [node |-> "Cmd", cmd |-> c]
Sexp(o, l, r) == [node |-> "Sexp", op |-> o, left |-> l, right |-> r]

\* u64::max_value()
U64Max ==
    << "1", "8", "4", "4", "6", "7", "4", "4", "0", "7", "3", "7", "0", "9", "5", "5", "1", "6", "1", "5" >>

\* nom's tag!: the input is compared with the tag over the shorter length of
\* the two; a mismatch is an Error, a matching input that ends early Incomplete
tag(t, s, i) ==
    LET len == Len(s) - i + 1
        m == IF len < Len(t) THEN len ELSE Len(t)
    IN  IF SubSeq(s, i, i + m - 1) # SubSeq(t, 1, m) THEN PError
        ELSE IF m < Len(t) THEN Incomplete(Size(Len(t)))
        ELSE Done(i + Len(t), t)

\* nom's sp, eat_separator!(" \t\r\n"): the index of the first byte at or
\* after i that is no separator; never fails
sp(s, i) ==
    LET rest == { j \in i..Len(s) : s[j] \notin Whitespace }
    IN  IF rest = {} THEN Len(s) + 1 ELSE CHOOSE j \in rest : \A k \in rest : j <= k

\* the longest run of bytes of C starting at i ends before this index
RunEnd(C, s, i) ==
    LET stop == { j \in i..Len(s) : s[j] \notin C }
    IN  IF stop = {} THEN Len(s) + 1 ELSE CHOOSE j \in stop : \A k \in stop : j <= k

\* nom::multispace and nom::digit: Incomplete on empty input, Error when the
\* first byte is not of the class
multispace(s, i) ==
    IF i > Len(s) THEN Incomplete(Unknown)
    ELSE IF s[i] \notin Whitespace THEN PError
    ELSE Done(RunEnd(Whitespace, s, i), SubSeq(s, i, RunEnd(Whitespace, s, i) - 1))

digit(s, i) ==
    IF i > Len(s) THEN Incomplete(Unknown)
    ELSE IF s[i] \notin Digit THEN PError
    ELSE Done(RunEnd(Digit, s, i), SubSeq(s, i, RunEnd(Digit, s, i) - 1))

\* opt!: an Error becomes Done(None) on the same input
opt(r, i) == IF r.kind = "Error" THEN Done(i, None) ELSE r

opt_multispace(s, i) == opt(multispace(s, i), i)

\* alt! over tag!s, each with its output: the first Done or Incomplete wins
RECURSIVE alt_tags(_, _, _, _)

alt_tags_arm(table, k, s, i, r) ==
    IF r.kind = "Done" THEN Done(r.rest, table[k].out)
    ELSE IF r.kind = "Incomplete" THEN r
    ELSE alt_tags(table, k + 1, s, i)

alt_tags(table, k, s, i) ==
    IF k > Len(table) THEN PError
    ELSE alt_tags_arm(table, k, s, i, tag(table[k].t, s, i))

\* FromStr for u64 on a run of digits: the numeral without leading zeros, or
\* an error when it exceeds u64::max_value()
DigitValue(c) == CHOOSE v \in 0..9 : << "0", "1", "2", "3", "4", "5", "6", "7", "8", "9" >>[v + 1] = c

StripZeros(d) ==
    LET nz == { j \in 1..Len(d) : d[j] # "0" }
    IN  IF nz = {} THEN << "0" >>
        ELSE SubSeq(d, CHOOSE j \in nz : \A k \in nz : j <= k, Len(d))

\* a above b, for numerals of the same length
NumeralAbove(a, b) ==
    \E j \in 1..Len(a) :
        /\ DigitValue(a[j]) > DigitValue(b[j])
        /\ \A k \in 1..(j - 1) : a[k] = b[k]

u64_from_str(d) ==
    LET n == StripZeros(d)
    IN  IF Len(n) > Len(U64Max) \/ (Len(n) = Len(U64Max) /\ NumeralAbove(n, U64Max))
        THEN Err("number too large to fit in target type")
        ELSE Ok(n)

\* num, src/lang/ast.rs:119-125: map_res! turns an Err of the conversion into
\* a parse Error
num_map_res(d, n) == IF n.kind = "Ok" THEN Done(d.rest, n.val) ELSE PError

num_digits(d) == IF d.kind # "Done" THEN d ELSE num_map_res(d, u64_from_str(d.out))

num(s, i) == num_digits(digit(s, i))

\* name_raw, src/lang/ast.rs:128-131: take_while1! of alphanumerics, '.', '_'
NameChar == Alpha \cup Digit \cup { ".", "_" }

name_raw(s, i) ==
    IF i > Len(s) THEN Incomplete(Unknown)
    ELSE IF s[i] \notin NameChar THEN PError
    ELSE Done(RunEnd(NameChar, s, i), SubSeq(s, i, RunEnd(NameChar, s, i) - 1))

starts_with_reserved(n) == Len(n) >= 2 /\ n[1] = "_" /\ n[2] = "_"

\* name, src/lang/ast.rs:133-147
name_checked(r) ==
    IF r.kind # "Done" THEN r
    ELSE IF starts_with_reserved(r.out) THEN PError
    ELSE r

name(s, i) == name_checked(name_raw(s, i))

AtomTags ==
    << [t |-> << "t", "r", "u", "e" >>, out |-> AtomBool(TRUE)],
       [t |-> << "f", "a", "l", "s", "e" >>, out |-> AtomBool(FALSE)],
       [t |-> << "+", "i", "n", "f", "i", "n", "i", "t", "y" >>, out |-> AtomNum(U64Max)] >>

\* atom, src/lang/ast.rs:149-161: ws! skips separators before and after; the
\* alternatives are tried in the order true, false, +infinity, num, name.  A
\* Size counts the leading separators that ws! skipped.
atom_alt(t, nu, na) ==
    IF t.kind # "Error" THEN t
    ELSE IF nu.kind = "Done" THEN Done(nu.rest, AtomNum(nu.out))
    ELSE IF nu.kind = "Incomplete" THEN nu
    ELSE IF na.kind = "Done" THEN Done(na.rest, AtomName(na.out))
    ELSE na

atom_ws(s, r) == IF r.kind = "Done" THEN Done(sp(s, r.rest), Ok(r.out)) ELSE r

atom_at(s, i) == atom_ws(s, atom_alt(alt_tags(AtomTags, 1, s, i), num(s, i), name(s, i)))

atom(s, i) == add_consumed(sp(s, i) - i, atom_at(s, sp(s, i)))

OpTags ==
    << [t |-> << "+" >>, out |-> "Add"],
       [t |-> << "a", "d", "d" >>, out |-> "Add"],
       [t |-> << "&", "&" >>, out |-> "And"],
       [t |-> << "a", "n", "d" >>, out |-> "And"],
       [t |-> << ":", "=" >>, out |-> "Bind"],
       [t |-> << "b", "i", "n", "d" >>, out |-> "Bind"],
       [t |-> << "i", "f" >>, out |-> "If"],
       [t |-> << "/" >>, out |-> "Div"],
       [t |-> << "d", "i", "v" >>, out |-> "Div"],
       [t |-> << "=", "=" >>, out |-> "Equiv"],
       [t |-> << "e", "q" >>, out |-> "Equiv"],
       [t |-> << "e", "w", "m", "a" >>, out |-> "Ewma"],
       [t |-> << ">" >>, out |-> "Gt"],
       [t |-> << "g", "t" >>, out |-> "Gt"],
       [t |-> << "<" >>, out |-> "Lt"],
       [t |-> << "l", "t" >>, out |-> "Lt"],
       [t |-> << "w", "r", "a", "p", "p", "e", "d", "_", "m", "a", "x" >>, out |-> "MaxWrap"],
       [t |-> << "m", "a", "x" >>, out |-> "Max"],
       [t |-> << "m", "i", "n" >>, out |-> "Min"],
       [t |-> << "*" >>, out |-> "Mul"],
       [t |-> << "m", "u", "l" >>, out |-> "Mul"],
       [t |-> << "|", "|" >>, out |-> "Or"],
       [t |-> << "o", "r" >>, out |-> "Or"],
       [t |-> << "!", "i", "f" >>, out |-> "NotIf"],
       [t |-> << "-" >>, out |-> "Sub"],
       [t |-> << "s", "u", "b" >>, out |-> "Sub"] >>

\* op, src/lang/ast.rs:58-79: the operator tags in order, then any atom, which
\* is an "unexpected token"
op_atom(a) == IF a.kind = "Done" THEN Done(a.rest, Err("unexpected token")) ELSE a

op_alt(s, i, t) ==
    IF t.kind = "Done" THEN Done(t.rest, Ok(t.out))
    ELSE IF t.kind = "Incomplete" THEN t
    ELSE op_atom(atom(s, i))

op(s, i) == op_alt(s, i, alt_tags(OpTags, 1, s, i))

IsConditional(e) == e.node = "Sexp" /\ e.op \in { "If", "NotIf" }

StaticTypeError == Err("Conditional cannot be bound to temp register")

\* the rule applied to the right operand instead of the left
check_expr_right(o, left, right) ==
    IF o = "Bind" THEN Ok(Sexp(o, left, right))
    ELSE IF IsConditional(right) THEN StaticTypeError
    ELSE Ok(Sexp(o, left, right))

\* check_expr, src/lang/ast.rs:81-94
check_expr(o, left, right) ==
    IF o = "Bind" THEN Ok(Sexp(o, left, right))
    ELSE IF IsConditional(left) THEN StaticTypeError
    ELSE Ok(Sexp(o, left, right))

CommandTags ==
    << [t |-> << "f", "a", "l", "l", "t", "h", "r", "o", "u", "g", "h" >>, out |-> Cmd("Fallthrough")],
       [t |-> << "r", "e", "p", "o", "r", "t" >>, out |-> Cmd("Report")],
       [t |-> << "r", "e", "s", "e", "t" >>, out |-> Cmd("Reset")] >>

\* command, src/lang/ast.rs:163-177.  The input of command starts at i; each
\* step takes the result of a parser that ran at j, after the separators, and
\* a result that is not Done leaves command with the bytes from i to j added
\* to its Size.
command_close(s, i, j, c, close) ==
    IF close.kind # "Done" THEN add_consumed(j - i, close)
    ELSE Done(sp(s, close.rest), Ok(c.out))

command_alt(s, i, j, c) ==
    IF c.kind # "Done" THEN add_consumed(j - i, c)
    ELSE command_close(s, i, sp(s, c.rest), c, tag(<< ")" >>, s, sp(s, c.rest)))

command_open(s, i, j, open) ==
    IF open.kind # "Done" THEN add_consumed(j - i, open)
    ELSE command_alt(s, i, sp(s, open.rest), alt_tags(CommandTags, 1, s, sp(s, open.rest)))

command(s, i) == command_open(s, i, sp(s, i), tag(<< "(" >>, s, sp(s, i)))

\* sexp, src/lang/ast.rs:97-115, and expr, src/lang/ast.rs:179-182.  ws! puts
\* sp before and after every parser of the sequence; the steps of do_parse!
\* follow one another: op, opt!(multispace), expr, opt!(multispace), expr, and
\* then the closing tag and the closure that combines the three results.
\* The input of sexp starts at i; each step takes the result of a parser that
\* ran at j, after the separators, and a result that is not Done leaves sexp
\* with the bytes from i to j added to its Size.
RECURSIVE expr(_, _)

sexp_result(first, second, third) ==
    IF first.kind # "Ok" THEN first
    ELSE IF second.kind # "Ok" THEN second
    ELSE IF third.kind # "Ok" THEN third
    ELSE check_expr(first.val, second.val, third.val)

sexp_close(s, i, j, first, second, third, close) ==
    IF close.kind # "Done" THEN add_consumed(j - i, close)
    ELSE Done(sp(s, close.rest), sexp_result(first, second, third.out))

sexp_third(s, i, j, first, second, third) ==
    IF third.kind # "Done" THEN add_consumed(j - i, third)
    ELSE sexp_close(s, i, sp(s, third.rest), first, second, third,
                    tag(<< ")" >>, s, sp(s, third.rest)))

sexp_gap2(s, i, j, first, second, gap) ==
    IF gap.kind # "Done" THEN add_consumed(j - i, gap)
    ELSE sexp_third(s, i, sp(s, gap.rest), first, second, expr(s, sp(s, gap.rest)))

sexp_second(s, i, j, first, second) ==
    IF second.kind # "Done" THEN add_consumed(j - i, second)
    ELSE sexp_gap2(s, i, sp(s, second.rest), first, second.out,
                   opt_multispace(s, sp(s, second.rest)))

sexp_gap1(s, i, j, first, gap) ==
    IF gap.kind # "Done" THEN add_consumed(j - i, gap)
    ELSE sexp_second(s, i, sp(s, gap.rest), first, expr(s, sp(s, gap.rest)))

sexp_first(s, i, j, first) ==
    IF first.kind # "Done" THEN add_consumed(j - i, first)
    ELSE sexp_gap1(s, i, sp(s, first.rest), first.out,
                   opt_multispace(s, sp(s, first.rest)))

sexp_open(s, i, j, open) ==
    IF open.kind # "Done" THEN add_consumed(j - i, open)
    ELSE sexp_first(s, i, sp(s, open.rest), op(s, sp(s, open.rest)))

sexp(s, i) == sexp_open(s, i, sp(s, i), tag(<< "(" >>, s, sp(s, i)))

\* alt_complete! turns an Incomplete alternative into an Error and tries the
\* next one
expr_atom(a) == IF a.kind = "Done" THEN a ELSE PError

expr_command(s, i, c) == IF c.kind = "Done" THEN c ELSE expr_atom(atom(s, i))

expr_sexp(s, i, x) == IF x.kind = "Done" THEN x ELSE expr_command(s, i, command(s, i))

expr(s, i) == expr_sexp(s, i, sexp(s, i))

\* exprs, src/lang/ast.rs:184-187, many1!(expr): at least one expr, then as
\* many as parse; the loop stops at the end of the input, at the first Error
\* and when an expr consumes nothing.  An Incomplete of an element at i is
\* returned with the i - 1 bytes of the elements before it added to its Size;
\* expr never returns Incomplete.
RECURSIVE many1_loop(_, _, _)

\* a repetition that fails when input is left that is no expression
many1_step_strict(s, i, res, r) ==
    IF r.kind = "Incomplete" THEN add_consumed(i - 1, r)
    ELSE IF r.kind = "Error" \/ r.rest = i THEN PError
    ELSE many1_loop(s, r.rest, Append(res, r.out))

many1_step(s, i, res, r) ==
    IF r.kind = "Incomplete" THEN add_consumed(i - 1, r)
    ELSE IF r.kind = "Error" \/ r.rest = i THEN Done(i, res)
    ELSE many1_loop(s, r.rest, Append(res, r.out))

many1_loop(s, i, res) ==
    IF i > Len(s) THEN Done(i, res) ELSE many1_step(s, i, res, expr(s, i))

many1_first(s, r) ==
    IF r.kind = "Error" THEN PError
    ELSE IF r.kind = "Incomplete" THEN r
    ELSE many1_loop(s, r.rest, << r.out >>)

exprs(s) == many1_first(s, expr(s, 1))

\* collect() of a Vec<Result<Expr>>: the first Err, or all the values
collect(rs) ==
    LET bad == { j \in 1..Len(rs) : rs[j].kind # "Ok" }
    IN  IF bad = {} THEN Ok([j \in 1..Len(rs) |-> rs[j].val])
        ELSE rs[CHOOSE j \in bad : \A k \in bad : j <= k]

\* Expr::new, src/lang/ast.rs:191-201: the match on the IResult of exprs
Expr_new_match(r) ==
    IF r.kind = "Done" THEN collect(r.out)
    ELSE IF r.kind = "Error" THEN Err("nom error")
    ELSE IF r.needed = Unknown THEN Err("need more src")
    ELSE Err("need " \o ToString(r.needed.n) \o " more bytes")

Expr_new(s) == Expr_new_match(exprs(s))

\* the remaining input of IResult::Done(r, _), None without it
remainder(s, r) == IF r.kind = "Done" THEN Ok(SubSeq(s, r.rest, Len(s))) ELSE None

ShouldContinue ==
    << "_", "_", "s", "h", "o", "u", "l", "d", "C", "o", "n", "t", "i", "n", "u", "e" >>
ShouldReport == << "_", "_", "s", "h", "o", "u", "l", "d", "R", "e", "p", "o", "r", "t" >>

\* a desugar that does not descend into the operands of an Sexp
desugar_top(e) ==
    CASE e.node = "Cmd" /\ e.cmd = "Fallthrough" ->
            Sexp("Bind", AtomName(ShouldContinue), AtomBool(TRUE))
      [] e.node = "Cmd" /\ e.cmd = "Report" ->
            Sexp("Bind", AtomName(ShouldReport), AtomBool(TRUE))
      [] e.node = "Cmd" /\ e.cmd = "Reset" ->
            Sexp("Reset", AtomBool(FALSE), AtomBool(FALSE))
      [] OTHER -> e

\* Expr::desugar, src/lang/ast.rs:203-232
RECURSIVE desugar(_)
desugar(e) ==
    CASE e.node = "Cmd" /\ e.cmd = "Fallthrough" ->
            Sexp("Bind", AtomName(ShouldContinue), AtomBool(TRUE))
      [] e.node = "Cmd" /\ e.cmd = "Report" ->
            Sexp("Bind", AtomName(ShouldReport), AtomBool(TRUE))
      [] e.node = "Cmd" /\ e.cmd = "Reset" ->
            Sexp("Reset", AtomBool(FALSE), AtomBool(FALSE))
      [] e.node = "Atom" -> e
      [] e.node = "Sexp" -> Sexp(e.op, desugar(e.left), desugar(e.right))

(***************************************************************************)
(* echo, src/bin/echo.rs: the receive buffer of main.                      *)
(***************************************************************************)
BUF_SIZE == 1024

\* let mut buf = [0u8; 1024]
ZeroBuf == [i \in 1..BUF_SIZE |-> 0]

\* recv_from(&mut buf): the datagram, cut to the size of the buffer, is
\* written at the start of buf; the bytes after it stay as they were
recv_count(d) == IF Len(d) < BUF_SIZE THEN Len(d) ELSE BUF_SIZE

recv_into(b, d) == [i \in 1..BUF_SIZE |-> IF i <= recv_count(d) THEN d[i] ELSE b[i]]

\* send_to(&buf, peer_addr): the bytes it is given to send are the whole
\* array, whatever count recv_from returned
send_payload(b, count) == SubSeq(b, 1, BUF_SIZE)

EchoIdle ==
    /\ epc = "idle"
    /\ ebuf = <<>>
    /\ ecount = 0
    /\ received = <<>>
    /\ sent = <<>>

(***************************************************************************)
(* Inputs of the codec.                                                    *)
(***************************************************************************)
Sids == { U32(7), U32(16909060) }
U32s == { U32(0), U32(1000), << 255, 255, 255, 255 >> }
U64s == { U64(900000), << 255, 254, 253, 252, 251, 250, 249, 248 >> }
TextBytes == { 97, 98 }
LongLens == { 245, 246, 249, 250, 256 }

\* valid UTF-8 strings: the short ones, a two-byte character, and long runs
Texts ==
    SeqsUpTo(TextBytes, MaxText) \cup { << 195, 169 >> } \cup { Fill(n, 97) : n \in LongLens }

Patterns == { <<>>, << 1, 2, 3 >>, Fill(249, 0), Fill(250, 0) }

CreateMsgs == { [typ |-> "Cr", sid |-> s, start_seq |-> q, cong_alg |-> t] :
                    s \in Sids, q \in U32s, t \in Texts }
MeasureMsgs == { [typ |-> "Ms", sid |-> s, ack |-> a, rtt_us |-> r, rin |-> i, rout |-> o] :
                    s \in Sids, a \in { U32(0), U32(1000) }, r \in { U32(25000), << 128, 0, 0, 1 >> }, i \in U64s, o \in U64s }
DropMsgs == { [typ |-> "Dr", sid |-> s, event |-> t] : s \in Sids, t \in Texts }
PatternMsgs == { [typ |-> "Pt", sid |-> s, pattern |-> p] : s \in Sids, p \in Patterns }
Messages == CreateMsgs \cup MeasureMsgs \cup DropMsgs \cup PatternMsgs

\* header plus payload, in bytes, of the encoding of m
EncodedSize(m) == HDR_LENGTH + Len(get_u32s(m)) + Len(get_u64s(m)) + Len(get_bytes(m))

Tags == { 0, 1, 2, 3, 4, 255 }
LenBytes == { 0, 5, 6, 9, 10, 11, 30, 31 }
MeasureBody ==
    u32_to_u8s(U32(1000)) \o u32_to_u8s(U32(25000)) \o u64_to_u8s(U64(1000000)) \o u64_to_u8s(U64(900000))
Bodies ==
    { <<>>, << 1, 0, 0 >>, << 1, 0, 0, 0 >>, << 1, 0, 0, 0, 97 >>, << 1, 0, 0, 0, 255 >>,
      SubSeq(MeasureBody, 1, 23), MeasureBody, MeasureBody \o << 0 >> }
ArbitraryBuffers ==
    { <<>>, << 0 >>, << 4 >>, << 1, 30, 7, 0, 0 >>, << 9, 6, 7, 0, 0 >> }
    \cup { serialize_header(t, l, U32(7)) \o b : t \in Tags, l \in LenBytes, b \in Bodies }

(***************************************************************************)
(* The codec driver: a peer that decodes datagrams and encodes messages.   *)
(***************************************************************************)
CodecInit ==
    /\ overflow_checks \in BOOLEAN
    /\ pc = "idle"
    /\ msg = None
    /\ wire = None
    /\ buf = <<>>
    /\ origin = "none"
    /\ decoded = None
    /\ history = <<>>
    /\ phase = "idle"
    /\ edits = 0
    /\ tree = <<>>
    /\ swept = FALSE
    /\ src = <<>>
    /\ parsed = None
    /\ leftover = None
    /\ desugared = None
    /\ padded = None
    /\ reparsed = None
    /\ EchoIdle

\* one call of Msg::from_buf on b; a panic ends the process
Decode(b, from) ==
    LET r == Msg_from_buf(b)
    IN  /\ Len(history) < MaxCalls
        /\ buf' = b
        /\ origin' = from
        /\ decoded' = r
        /\ history' = Append(history, r.kind)
        /\ pc' = IF r.kind = "Panic" THEN "panicked" ELSE "decoded"
        /\ UNCHANGED << overflow_checks, msg, wire, langVars, echoVars >>

\* a datagram from the network, before any message of ours is encoded
FromBufArbitrary ==
    /\ pc \in { "idle", "decoded" }
    /\ msg = None
    /\ \E b \in ArbitraryBuffers : Decode(b, "arbitrary")

\* RMsg(m).serialize()
Serialize ==
    /\ pc \in { "idle", "decoded" }
    /\ msg = None
    /\ \E m \in Messages :
        LET w == RMsg_serialize(m, overflow_checks)
        IN  /\ msg' = m
            /\ wire' = w
            /\ pc' = IF w.kind = "Panic" THEN "panicked" ELSE "encoded"
    /\ buf' = <<>>
    /\ origin' = "none"
    /\ decoded' = None
    /\ UNCHANGED << overflow_checks, history, langVars, echoVars >>

\* the encoding as it was produced
FromBufWire ==
    /\ pc = "encoded"
    /\ Decode(wire.val, "wire")

\* the encoding with its last byte removed
FromBufTruncated ==
    /\ pc = "encoded"
    /\ Decode(SubSeq(wire.val, 1, Len(wire.val) - 1), "truncated")

\* the encoding with another type tag
FromBufRetagged ==
    /\ pc = "encoded"
    /\ \E t \in Tags \ { wire.val[1] } :
        Decode([wire.val EXCEPT ![1] = t], "retagged")

\* the encoding with another length byte
FromBufRelen ==
    /\ pc = "encoded"
    /\ \E l \in LenBytes \ { wire.val[2] } :
        Decode([wire.val EXCEPT ![2] = l], "relen")

CodecNext ==
    \/ FromBufArbitrary
    \/ Serialize
    \/ FromBufWire
    \/ FromBufTruncated
    \/ FromBufRetagged
    \/ FromBufRelen

CodecSpec == CodecInit /\ [][CodecNext]_vars

(***************************************************************************)
(* Inputs of the parser: program texts composed from items.  An item is a  *)
(* leaf (an atom or a command, given by its text), a node (an operator     *)
(* token with two items as operands) or a stray closing parenthesis.       *)
(***************************************************************************)
Leaf(text) == [t |-> "leaf", text |-> text]
Node(tok, l, r) == [t |-> "node", tok |-> tok, l |-> l, r |-> r]
Close == [t |-> "close"]

L10 == Leaf(<< "1", "0" >>)
L20 == Leaf(<< "2", "0" >>)
LX == Leaf(<< "x" >>)
LY == Leaf(<< "y" >>)
LTrue == Leaf(<< "t", "r", "u", "e" >>)
LReport == Leaf(<< "(", "r", "e", "p", "o", "r", "t", ")" >>)
LReset == Leaf(<< "(", "r", "e", "s", "e", "t", ")" >>)
LFallthrough == Leaf(<< "(", "f", "a", "l", "l", "t", "h", "r", "o", "u", "g", "h", ")" >>)
LT == Leaf(<< "t" >>)
LReserved == Leaf(<< "_", "_", "r" >>)
LTooBig == Leaf(<< "1", "8", "4", "4", "6", "7", "4", "4", "0", "7", "3", "7", "0", "9", "5", "5", "1", "6", "1", "6" >>)

IfTok == << "i", "f" >>
NotIfTok == << "!", "i", "f" >>
BindToks == { << ":", "=" >>, << "b", "i", "n", "d" >> }
AllToks == { OpTags[k].t : k \in 1..Len(OpTags) }
RepToks == { << "+" >>, << ":", "=" >>, << "i", "f" >> }

Seeds ==
    { L10, LX, LReport, LReset, LFallthrough, LReserved, LTooBig,
      Node(IfTok, LX, L20), Node(NotIfTok, LTrue, LY) }
TopSeeds == { L20, LT, LReserved, LTooBig, Node(IfTok, LX, L20) }

RECURSIVE Text(_)
Text(x) ==
    CASE x.t = "leaf" -> x.text
      [] x.t = "node" ->
            << "(" >> \o x.tok \o << " " >> \o Text(x.l) \o << " " >> \o Text(x.r) \o << ")" >>
      [] x.t = "close" -> << ")" >>

\* the items in order, a space before each but the first and a stray ")"
RECURSIVE TextOf(_)
TextOf(items) ==
    IF items = <<>> THEN <<>>
    ELSE LET n == Len(items)
             head == TextOf(SubSeq(items, 1, n - 1))
         IN  IF n = 1 \/ items[n].t = "close" THEN head \o Text(items[n])
             ELSE head \o << " " >> \o Text(items[n])

\* White space inserted between the tokens of a text: a run for each kind of
\* gap, at the start, after "(", between two tokens that a space separates,
\* before ")" and at the end.
Pad(start, open, between, close, end) ==
    [start |-> start, open |-> open, between |-> between, close |-> close, end |-> end]

Pads ==
    { Pad(<< "\n", " " >>, <<>>, <<>>, <<>>, <<>>),
      Pad(<<>>, << "\t" >>, <<>>, <<>>, <<>>),
      Pad(<<>>, <<>>, << "\r", "\n" >>, <<>>, <<>>),
      Pad(<<>>, <<>>, <<>>, << " " >>, <<>>),
      Pad(<<>>, <<>>, <<>>, <<>>, << " " >>),
      Pad(<< " " >>, << "\n" >>, << "\t", " " >>, << "\r" >>, << "\n" >>) }

RECURSIVE TextPad(_, _)
TextPad(x, pad) ==
    CASE x.t = "leaf" /\ x.text[1] = "(" ->
            << "(" >> \o pad.open \o SubSeq(x.text, 2, Len(x.text) - 1) \o pad.close \o << ")" >>
      [] x.t = "leaf" /\ x.text[1] # "(" -> x.text
      [] x.t = "node" ->
            << "(" >> \o pad.open \o x.tok \o << " " >> \o pad.between \o TextPad(x.l, pad)
                \o << " " >> \o pad.between \o TextPad(x.r, pad) \o pad.close \o << ")" >>
      [] x.t = "close" -> << ")" >>

RECURSIVE ItemsPad(_, _)
ItemsPad(items, pad) ==
    IF items = <<>> THEN <<>>
    ELSE LET n == Len(items)
             head == ItemsPad(SubSeq(items, 1, n - 1), pad)
         IN  IF n = 1 \/ items[n].t = "close" THEN head \o TextPad(items[n], pad)
             ELSE head \o << " " >> \o pad.between \o TextPad(items[n], pad)

TextOfPad(items, pad) == pad.start \o ItemsPad(items, pad) \o pad.end

Last(items) == items[Len(items)]
ReplaceLast(items, x) == [items EXCEPT ![Len(items)] = x]

(***************************************************************************)
(* The parser driver: a program text is composed, then Expr::new is called *)
(* on it.                                                                  *)
(***************************************************************************)
CodecIdle ==
    /\ overflow_checks = FALSE
    /\ pc = "idle"
    /\ msg = None
    /\ wire = None
    /\ buf = <<>>
    /\ origin = "none"
    /\ decoded = None
    /\ history = <<>>

LangIdle ==
    /\ phase = "idle"
    /\ edits = 0
    /\ tree = <<>>
    /\ swept = FALSE
    /\ src = <<>>
    /\ parsed = None
    /\ leftover = None
    /\ desugared = None
    /\ padded = None
    /\ reparsed = None

LangInit ==
    /\ CodecIdle
    /\ EchoIdle
    /\ phase = "edit"
    /\ edits = 0
    /\ tree = <<>>
    /\ swept = FALSE
    /\ src = <<>>
    /\ parsed = None
    /\ leftover = None
    /\ desugared = None
    /\ padded = None
    /\ reparsed = None

Compose(items, sw) ==
    /\ phase = "edit"
    /\ edits < MaxEdits
    /\ edits' = edits + 1
    /\ tree' = items
    /\ src' = TextOf(items)
    /\ swept' = sw
    /\ UNCHANGED << phase, parsed, leftover, desugared, padded, reparsed, codecVars, echoVars >>

\* the first top-level expression
WriteSeed ==
    /\ tree = <<>>
    /\ \E x \in Seeds : Compose(<< x >>, swept)

\* one more top-level expression
AppendSeed ==
    /\ tree # <<>>
    /\ Last(tree).t # "close"
    /\ \E x \in TopSeeds : Compose(Append(tree, x), swept)

\* a closing parenthesis that matches nothing
AppendClose ==
    /\ tree # <<>>
    /\ Last(tree).t # "close"
    /\ Compose(Append(tree, Close), swept)

\* the last expression becomes the left or the right operand of a new one
WrapRep ==
    /\ tree # <<>>
    /\ Last(tree).t # "close"
    /\ \E tok \in RepToks :
        \/ Compose(ReplaceLast(tree, Node(tok, Last(tree), L20)), swept)
        \/ Compose(ReplaceLast(tree, Node(tok, LX, Last(tree))), swept)

\* once per text: the last expression as the left operand of any operator token
\* of the table, or as the right operand of a Bind
WrapOp ==
    /\ tree # <<>>
    /\ Last(tree).t # "close"
    /\ ~swept
    /\ \/ \E tok \in AllToks : Compose(ReplaceLast(tree, Node(tok, Last(tree), L20)), TRUE)
       \/ \E tok \in BindToks : Compose(ReplaceLast(tree, Node(tok, L10, Last(tree))), TRUE)

\* Expr::new(src)
New ==
    /\ phase = "edit"
    /\ tree # <<>>
    /\ parsed' = Expr_new(src)
    /\ leftover' = remainder(src, exprs(src))
    /\ phase' = "parsed"
    /\ UNCHANGED << edits, tree, swept, src, desugared, padded, reparsed, codecVars, echoVars >>

\* e.desugar() on every tree that Expr::new returned
Desugar ==
    /\ phase = "parsed"
    /\ parsed.kind = "Ok"
    /\ desugared' = [k \in 1..Len(parsed.val) |-> desugar(parsed.val[k])]
    /\ phase' = "desugared"
    /\ UNCHANGED << edits, tree, swept, src, parsed, leftover, padded, reparsed, codecVars, echoVars >>

\* Expr::new on the same text with white space inserted between its tokens
Respace ==
    /\ phase = "parsed"
    /\ edits <= MaxPadEdits
    /\ \E pad \in Pads :
        /\ padded' = TextOfPad(tree, pad)
        /\ reparsed' = Expr_new(TextOfPad(tree, pad))
    /\ phase' = "respaced"
    /\ UNCHANGED << edits, tree, swept, src, parsed, leftover, desugared, codecVars, echoVars >>

LangNext ==
    \/ WriteSeed
    \/ AppendSeed
    \/ AppendClose
    \/ WrapRep
    \/ WrapOp
    \/ New
    \/ Desugar
    \/ Respace

LangSpec == LangInit /\ [][LangNext]_vars

(***************************************************************************)
(* echo's main, src/bin/echo.rs:20-26: the loop, from the bound socket on. *)
(***************************************************************************)
EchoBytes == { 97, 98, 255 }
Datagrams == SeqsUpTo(EchoBytes, MaxDatagramLen)

EchoInit ==
    /\ CodecIdle
    /\ LangIdle
    /\ epc = "recv"
    /\ ebuf = ZeroBuf
    /\ ecount = 0
    /\ received = <<>>
    /\ sent = <<>>

\* recv_from, then the println! of from_utf8(&buf[..count]).unwrap(): a
\* datagram that is not UTF-8 panics at the unwrap, and println! panics when
\* the write to stdout fails (a closed pipe), whatever the datagram
RecvFrom ==
    /\ epc = "recv"
    /\ Len(received) < MaxDatagrams
    /\ \E d \in Datagrams :
        /\ received' = Append(received, d)
        /\ ebuf' = recv_into(ebuf, d)
        /\ ecount' = recv_count(d)
        /\ \/ /\ from_utf8(SubSeq(recv_into(ebuf, d), 1, recv_count(d))).kind = "Ok"
              /\ epc' = "send"
           \/ epc' = "panicked"
    /\ UNCHANGED << sent, codecVars, langVars >>

\* send_to(&buf, peer_addr).unwrap(): the datagram goes out, or the send
\* fails (no socket at the peer address) and the unwrap panics
SendTo ==
    /\ epc = "send"
    /\ \/ /\ sent' = Append(sent, send_payload(ebuf, ecount))
          /\ epc' = "recv"
       \/ /\ epc' = "panicked"
          /\ UNCHANGED sent
    /\ UNCHANGED << ebuf, ecount, received, codecVars, langVars >>

EchoNext ==
    \/ RecvFrom
    \/ SendTo

EchoSpec == EchoInit /\ [][EchoNext]_vars

(***************************************************************************)
(* Claims about the codec, checked under CodecSpec.                        *)
(***************************************************************************)
Fits(m) == EncodedSize(m) <= 255

\* C1: decoding the encoding of a message that fits in 255 bytes returns Ok
\* with a message of the same variant and the same fields.
C1_RoundTrip ==
    (origin = "wire" /\ Fits(msg)) => decoded = Ok(msg)

C1_Witness ==
    /\ origin = "wire"
    /\ msg.typ = "Cr"
    /\ Len(msg.cong_alg) = 245
    /\ msg.start_seq = << 255, 255, 255, 255 >>
    /\ decoded = Ok(msg)

\* C2: byte 1 of every buffer serialize returns is the length of that buffer,
\* whatever the length of the text payload.
C2_SelfDescribingLength ==
    wire.kind = "Ok" => wire.val[2] = Len(wire.val)

\* C3: a message whose header plus payload exceeds 255 bytes makes serialize
\* return an error, so every buffer it returns has at most 255 bytes.
C3_OverLongRejected ==
    /\ (msg # None /\ ~Fits(msg)) => wire.kind = "Err"
    /\ wire.kind = "Ok" => Len(wire.val) <= 255

\* C4: a valid encoding with its last byte removed decodes to an error value:
\* neither Ok nor a panic.
C4_TruncationIsError ==
    (origin = "truncated" /\ Fits(msg)) => decoded.kind = "Err"

\* C5: every from_buf call of a run returns Ok or Err to its caller, and a
\* valid encoding decoded after malformed buffers still gives Ok(m).
C5_NoPoison ==
    /\ \A i \in 1..Len(history) : history[i] \in { "Ok", "Err" }
    /\ (origin = "wire" /\ Fits(msg)) => decoded = Ok(msg)

\* C6: a buffer whose first byte is not 0, 1, 2 or 3 is never decoded to Ok:
\* from_buf returns an error, "unknown type" once the header can be read.
C6_UnknownTagRejected ==
    (origin # "none" /\ Len(buf) >= 1 /\ buf[1] \notin { CREATE, MEASURE, DROP, CWND })
        => /\ decoded.kind = "Err"
           /\ Len(buf) >= 6 => decoded = Err("unknown type")

C6_Witness ==
    /\ origin = "retagged"
    /\ buf[1] = 255
    /\ Len(buf) = 30
    /\ decoded = Err("unknown type")

\* the length byte of b does not fit its tag
LenMisfit(b) ==
    \/ b[2] < HDR_LENGTH
    \/ b[1] = MEASURE /\ b[2] # 30
    \/ b[1] = CREATE /\ b[2] < 10

\* C7: a buffer whose length byte does not fit its tag decodes to an error
\* value, never to Ok.
C7_InconsistentLengthRejected ==
    (origin # "none" /\ Len(buf) >= 2 /\ LenMisfit(buf)) => decoded.kind = "Err"

(***************************************************************************)
(* Claims about the parser, checked under LangSpec.                        *)
(***************************************************************************)
\* a name starts at i: the start of a run of name characters
NameStartsAt(s, i) == s[i] \in NameChar /\ (i = 1 \/ s[i - 1] \notin NameChar)

\* s holds a name token that starts with two underscores
HasReservedName(s) ==
    \E i \in 1..(Len(s) - 1) : NameStartsAt(s, i) /\ s[i] = "_" /\ s[i + 1] = "_"

\* C8: a source that contains a name starting with "__", at any position,
\* makes Expr::new return an error.
C8_ReservedRejected ==
    (phase = "parsed" /\ HasReservedName(src)) => parsed.kind = "Err"

\* s holds a token made of digits only whose value exceeds 2^64 - 1
HasOverflowingLiteral(s) ==
    \E i \in 1..Len(s) :
        /\ NameStartsAt(s, i)
        /\ \A j \in i..(RunEnd(NameChar, s, i) - 1) : s[j] \in Digit
        /\ u64_from_str(SubSeq(s, i, RunEnd(NameChar, s, i) - 1)).kind = "Err"

\* C9: a source in which an integer literal exceeds 2^64 - 1 makes Expr::new
\* return an error; the literal is not accepted as another atom.
C9_OverflowRejected ==
    (phase = "parsed" /\ HasOverflowingLiteral(src)) => parsed.kind = "Err"

\* the items that are expressions of the language, and what each denotes
LeafAst(x) ==
    CASE x = L10 -> AtomNum(<< "1", "0" >>)
      [] x = L20 -> AtomNum(<< "2", "0" >>)
      [] x = LX -> AtomName(<< "x" >>)
      [] x = LY -> AtomName(<< "y" >>)
      [] x = LTrue -> AtomBool(TRUE)
      [] x = LReport -> Cmd("Report")
      [] x = LReset -> Cmd("Reset")
      [] x = LFallthrough -> Cmd("Fallthrough")
      [] x = LT -> AtomName(<< "t" >>)

OpOfTok(tok) == OpTags[CHOOSE k \in 1..Len(OpTags) : OpTags[k].t = tok].out

RECURSIVE IsExpression(_)
IsExpression(x) ==
    CASE x.t = "leaf" -> x \in { L10, L20, LX, LY, LTrue, LT, LReport, LReset, LFallthrough }
      [] x.t = "node" -> IsExpression(x.l) /\ IsExpression(x.r)
      [] x.t = "close" -> FALSE

RECURSIVE Ast(_)
Ast(x) ==
    IF x.t = "leaf" THEN LeafAst(x) ELSE Sexp(OpOfTok(x.tok), Ast(x.l), Ast(x.r))

IsConditionalItem(x) == x.t = "node" /\ x.tok \in { IfTok, NotIfTok }

\* at some depth of x, an operator other than Bind has a conditional as its
\* left operand
RECURSIVE Offends(_)
Offends(x) ==
    /\ x.t = "node"
    /\ \/ x.tok \notin BindToks /\ IsConditionalItem(x.l)
       \/ Offends(x.l)
       \/ Offends(x.r)

\* a Bind of a name to a conditional, with nothing offending in it
IsBindOfConditional(x) ==
    /\ x.t = "node"
    /\ x.tok \in BindToks
    /\ IsConditionalItem(x.r)
    /\ ~Offends(x)

\* C10: a text of expressions in which, at any depth, an operator other than
\* Bind has a conditional as its left operand fails with the StaticType error;
\* a text that is one Bind with a conditional as its right operand parses to
\* Sexp(Bind, left, Sexp(If, a, b)).
C10_ConditionalBinding ==
    (phase = "parsed" /\ \A k \in 1..Len(tree) : IsExpression(tree[k]))
        => /\ (\E k \in 1..Len(tree) : Offends(tree[k])) => parsed = StaticTypeError
           /\ (Len(tree) = 1 /\ IsBindOfConditional(tree[1]))
                => parsed = Ok(<< Sexp("Bind", Ast(tree[1].l), Ast(tree[1].r)) >>)

C10_Witness ==
    /\ phase = "parsed"
    /\ tree = << Node(<< "m", "a", "x" >>, Node(<< "+" >>, Node(IfTok, LX, L20), L20), L20) >>
    /\ parsed = StaticTypeError

\* somewhere in the AST e, a Bind has a conditional as its left operand
RECURSIVE BindsConditional(_)
BindsConditional(e) ==
    /\ e.node = "Sexp"
    /\ \/ e.op = "Bind" /\ IsConditional(e.left)
       \/ BindsConditional(e.left)
       \/ BindsConditional(e.right)

\* C11: no tree that Expr::new returns holds a Bind whose left operand is an
\* If or a NotIf; such a source is a static error.
C11_NoConditionalBoundLeft ==
    (phase = "parsed" /\ parsed.kind = "Ok")
        => \A k \in 1..Len(parsed.val) : ~BindsConditional(parsed.val[k])

\* the rewrite of a command
Rewrite(c) ==
    CASE c = "Fallthrough" -> Sexp("Bind", AtomName(ShouldContinue), AtomBool(TRUE))
      [] c = "Report" -> Sexp("Bind", AtomName(ShouldReport), AtomBool(TRUE))
      [] c = "Reset" -> Sexp("Reset", AtomBool(FALSE), AtomBool(FALSE))

\* d is e with every command replaced by its rewrite and nothing else changed
RECURSIVE Desugars(_, _)
Desugars(e, d) ==
    CASE e.node = "Cmd" -> d = Rewrite(e.cmd)
      [] e.node = "Atom" -> d = e
      [] e.node = "Sexp" ->
            /\ d.node = "Sexp"
            /\ d.op = e.op
            /\ Desugars(e.left, d.left)
            /\ Desugars(e.right, d.right)

RECURSIVE HasCmd(_)
HasCmd(e) == e.node = "Cmd" \/ (e.node = "Sexp" /\ (HasCmd(e.left) \/ HasCmd(e.right)))

\* C12: after desugar() every command, at any depth, is replaced by its
\* rewrite, no Cmd node remains, and every other node is unchanged.
C12_DesugarRemovesCommands ==
    phase = "desugared"
        => /\ Len(desugared) = Len(parsed.val)
           /\ \A k \in 1..Len(desugared) :
                /\ Desugars(parsed.val[k], desugared[k])
                /\ ~HasCmd(desugared[k])

C12_Witness ==
    /\ phase = "desugared"
    /\ tree = << Node(<< "m", "a", "x" >>, Node(<< "+" >>, LReset, L20), L20) >>
    /\ desugared =
        << Sexp("Max", Sexp("Add", Rewrite("Reset"), AtomNum(<< "2", "0" >>)), AtomNum(<< "2", "0" >>)) >>

\* C13: for a text of expressions that Expr::new accepts, the same text with
\* white space inserted between its tokens gives the same list of ASTs.
C13_WhitespaceInsignificant ==
    (phase = "respaced" /\ parsed.kind = "Ok" /\ \A k \in 1..Len(tree) : IsExpression(tree[k]))
        => reparsed = parsed

\* the text is one or more expressions that parse, then an unmatched ")"
EndsWithStrayClose ==
    /\ Len(tree) >= 2
    /\ Last(tree) = Close
    /\ \A k \in 1..(Len(tree) - 1) : IsExpression(tree[k]) /\ ~Offends(tree[k])

\* C14: on expressions followed by an unmatched ")", exprs succeeds with the
\* ")" as the remaining input, and Expr::new returns Ok with exactly the
\* expressions before it, in order.
C14_LeftoverClose ==
    (phase = "parsed" /\ EndsWithStrayClose)
        => /\ leftover = Ok(<< ")" >>)
           /\ parsed = Ok([k \in 1..(Len(tree) - 1) |-> Ast(tree[k])])

C14_Witness ==
    /\ phase = "parsed"
    /\ src = << "(", "+", " ", "1", "0", " ", "2", "0", ")", ")" >>
    /\ leftover = Ok(<< ")" >>)
    /\ parsed = Ok(<< Sexp("Add", AtomNum(<< "1", "0" >>), AtomNum(<< "2", "0" >>)) >>)

(***************************************************************************)
(* Claims about echo, checked under EchoSpec.                              *)
(***************************************************************************)
\* C15: the k-th datagram that echo sends carries exactly the bytes of the
\* k-th datagram it received: the same length and contents, nothing left over
\* from earlier datagrams and no padding.
C15_EchoForwards ==
    \A k \in 1..Len(sent) : sent[k] = received[k]

====
